---- MODULE Spec2Model ----
(***************************************************************************)
(* Pulse: multi-token ledger and marketplace canister (Motoko).            *)
(*                                                                         *)
(* The model follows the marketplace variant of the backend actor          *)
(* (src/unnamed/part_002, the same text as the second half of              *)
(* src/src/pulse_backend/main copy.mo).  Every public shared function is   *)
(* one atomic message execution.  buy awaits three self-calls, so it is    *)
(* split at each await: the self-call is a message that executes as a step *)
(* of its own, and the code after the await is a further step.             *)
(***************************************************************************)
EXTENDS Integers, Sequences, FiniteSets, TLC

\* ------------------------------------------------------------------ bounds
MaxTokens == 2
MaxAmount == 2
MaxBalance == 3
MaxApprovals == 1
MaxListings == 1
MaxBuys == 2
MaxKeys == 2
MaxTime == 1
MaxOffers == 2

\* ------------------------------------------------------------- principals
\* Principal.isAnonymous(caller) holds for Anonymous only.
Anonymous == "anon"
\* The principal that initializeAdmins puts in adminPrincipals.
AdminPrincipal == "5lkc7"
Principals == {"a", "b", Anonymous, AdminPrincipal}
\* The canister's own principal: the caller of every self-call made by buy.
Engine == "engine"
Users == {"a", "b"}
Accounts == Users \cup {Engine}

Amounts == 0 .. MaxAmount

\* tokens, listings, nextTokenId, nextListingId: the actor's state.
\* buys: the buy calls suspended at an await.
\* ret: the reply to the last call, where a specification records it.
\* grants: history, per (token, owner, spender): the allowance of the last
\*   approve (n) and the amounts of the transferFrom calls by that spender that
\*   returned #ok since then (spent).
VARIABLES tokens, listings, nextTokenId, nextListingId, buys, ret, grants

\* The state of the role-based actor (src/src/pulse_backend/main.mo) beside
\* tokens and nextTokenId: userProfiles, adminPrincipals, and the time that
\* Time.now() returns (now).
\* cancelled: history, the ids of the listings a cancel_listing call of the
\*   seller has returned #ok for.
VARIABLES userProfiles, adminPrincipals, now, cancelled

\* History of the marketplace: for every listing id, the amount the listing
\* was created with and the sum of the amounts of the buy calls on it that
\* returned ok.
VARIABLES sales

\* What the ledger and marketplace functions of part_002 never touch.
others == <<userProfiles, adminPrincipals, now, cancelled, sales>>

vars == <<tokens, listings, nextTokenId, nextListingId, buys, ret, grants,
          userProfiles, adminPrincipals, now, cancelled, sales>>

\* ----------------------------------------------------------------- helpers
isValidName(size) == size >= 2 /\ size <= 50

isValidSymbol(size) == size >= 2 /\ size <= 10

\* ?Nat of the source: 0 stands for null, k >= 1 for ?(k-1).
NoIdx == 0

SetMin(S) == CHOOSE x \in S : \A y \in S : x <= y

SetMax(S) == CHOOSE x \in S : \A y \in S : x >= y

findTokenIndex(tk, id) ==
  LET hit == {i \in 1 .. Len(tk) : tk[i].id = id}
  IN  IF hit = {} THEN NoIdx ELSE SetMin(hit)

getBalance(tk, tokenIdx, account) ==
  LET bal == tk[tokenIdx].balances
      hit == {i \in 1 .. Len(bal) : bal[i][1] = account}
  IN  IF hit = {} THEN 0 ELSE bal[SetMin(hit)][2]

setBalance(tk, tokenIdx, account, amount) ==
  LET token == tk[tokenIdx]
      found == \E i \in 1 .. Len(token.balances) : token.balances[i][1] = account
      newBalances == [i \in 1 .. Len(token.balances) |->
                        IF token.balances[i][1] = account
                        THEN <<account, amount>>
                        ELSE token.balances[i]]
      finalBalances == IF found THEN newBalances
                       ELSE Append(newBalances, <<account, amount>>)
  IN  [tk EXCEPT ![tokenIdx] = [token EXCEPT !.balances = finalBalances]]

\* Faulty variants of transferTokens, for which C9 and C10 fail: one without
\* the balance check, one that debits without crediting.
transferTokens_Unchecked(tk, tokenIdx, from, to, amount) ==
  LET fromBalance == getBalance(tk, tokenIdx, from)
      toBalance == getBalance(tk, tokenIdx, to)
      left == IF fromBalance < amount THEN 0 ELSE fromBalance - amount
  IN  [ok |-> TRUE,
       tokens |-> setBalance(setBalance(tk, tokenIdx, from, left),
                             tokenIdx, to, toBalance + amount)]

transferTokens_NoCredit(tk, tokenIdx, from, to, amount) ==
  LET fromBalance == getBalance(tk, tokenIdx, from)
  IN  IF fromBalance < amount
      THEN [ok |-> FALSE, tokens |-> tk]
      ELSE [ok |-> TRUE, tokens |-> setBalance(tk, tokenIdx, from, fromBalance - amount)]

transferTokens(tk, tokenIdx, from, to, amount) ==
  LET fromBalance == getBalance(tk, tokenIdx, from)
      toBalance == getBalance(tk, tokenIdx, to)
  IN  IF fromBalance < amount
      THEN [ok |-> FALSE, tokens |-> tk]
      ELSE [ok |-> TRUE,
            tokens |-> setBalance(setBalance(tk, tokenIdx, from, fromBalance - amount),
                                  tokenIdx, to, toBalance + amount)]

\* ---------------------------------------------------- public token functions
create_token(tk, nextId, caller, nameSize, symbolSize, initial_supply) ==
  IF caller = Anonymous THEN [res |-> "AnonymousNotAllowed", tokens |-> tk, next |-> nextId]
  ELSE IF ~isValidName(nameSize) THEN [res |-> "InvalidName", tokens |-> tk, next |-> nextId]
  ELSE IF ~isValidSymbol(symbolSize) THEN [res |-> "InvalidSymbol", tokens |-> tk, next |-> nextId]
  ELSE IF initial_supply = 0 THEN [res |-> "InvalidSupply", tokens |-> tk, next |-> nextId]
  ELSE [res |-> "ok",
        tokens |-> Append(tk, [id |-> nextId,
                               total_supply |-> initial_supply,
                               minting_account |-> caller,
                               balances |-> IF initial_supply > 0
                                            THEN << <<caller, initial_supply>> >>
                                            ELSE << >>,
                               approvals |-> << >>]),
        next |-> nextId + 1]

\* A faulty variant of transfer, for which C11 fails: no self-transfer check.
transfer_SelfAllowed(tk, caller, tokenId, to, amount) ==
  LET idx == findTokenIndex(tk, tokenId)
  IN  IF idx = NoIdx THEN [res |-> "TokenNotFound", tokens |-> tk]
      ELSE LET m == transferTokens(tk, idx, caller, to, amount)
           IN  IF m.ok THEN [res |-> "ok", tokens |-> m.tokens]
               ELSE [res |-> "InsufficientBalance", tokens |-> tk]

transfer(tk, caller, tokenId, to, amount) ==
  IF caller = to THEN [res |-> "SelfTransfer", tokens |-> tk]
  ELSE LET idx == findTokenIndex(tk, tokenId)
       IN  IF idx = NoIdx THEN [res |-> "TokenNotFound", tokens |-> tk]
           ELSE LET m == transferTokens(tk, idx, caller, to, amount)
                IN  IF m.ok THEN [res |-> "ok", tokens |-> m.tokens]
                    ELSE [res |-> "InsufficientBalance", tokens |-> tk]

IsApproval(approval, tokenId, owner, spender) ==
  approval.tokenId = tokenId /\ approval.owner = owner /\ approval.spender = spender

\* A faulty variant of approve, for which C12 fails: the new allowance is
\* added to the one the key has.
approve_Additive(tk, caller, tokenId, spender, allowance) ==
  IF caller = spender THEN [res |-> "SelfApproval", tokens |-> tk]
  ELSE LET idx == findTokenIndex(tk, tokenId)
       IN  IF idx = NoIdx THEN [res |-> "TokenNotFound", tokens |-> tk]
           ELSE LET token == tk[idx]
                    found == \E i \in 1 .. Len(token.approvals) :
                               IsApproval(token.approvals[i], tokenId, caller, spender)
                    newApprovals == [i \in 1 .. Len(token.approvals) |->
                                       IF IsApproval(token.approvals[i], tokenId, caller, spender)
                                       THEN [token.approvals[i] EXCEPT !.allowance = @ + allowance]
                                       ELSE token.approvals[i]]
                    finalApprovals == IF found THEN newApprovals
                                      ELSE Append(newApprovals,
                                                  [tokenId |-> tokenId, owner |-> caller,
                                                   spender |-> spender, allowance |-> allowance])
                IN  [res |-> "ok",
                     tokens |-> [tk EXCEPT ![idx] = [token EXCEPT !.approvals = finalApprovals]]]

approve(tk, caller, tokenId, spender, allowance) ==
  IF caller = spender THEN [res |-> "SelfApproval", tokens |-> tk]
  ELSE LET idx == findTokenIndex(tk, tokenId)
       IN  IF idx = NoIdx THEN [res |-> "TokenNotFound", tokens |-> tk]
           ELSE LET token == tk[idx]
                    found == \E i \in 1 .. Len(token.approvals) :
                               IsApproval(token.approvals[i], tokenId, caller, spender)
                    newApprovals == [i \in 1 .. Len(token.approvals) |->
                                       IF IsApproval(token.approvals[i], tokenId, caller, spender)
                                       THEN [token.approvals[i] EXCEPT !.allowance = allowance]
                                       ELSE token.approvals[i]]
                    finalApprovals == IF found THEN newApprovals
                                      ELSE Append(newApprovals,
                                                  [tokenId |-> tokenId, owner |-> caller,
                                                   spender |-> spender, allowance |-> allowance])
                IN  [res |-> "ok",
                     tokens |-> [tk EXCEPT ![idx] = [token EXCEPT !.approvals = finalApprovals]]]

\* balance_of, the query: 0 for an unknown token.
balance_of(tk, tokenId, account) ==
  LET idx == findTokenIndex(tk, tokenId)
  IN  IF idx = NoIdx THEN 0 ELSE getBalance(tk, idx, account)

\* The allowance loop of transferFrom (lines 401-411): no break, so the last
\* matching entry decides.
ApprovalHits(token, tokenId, owner, spender) ==
  {i \in 1 .. Len(token.approvals) : IsApproval(token.approvals[i], tokenId, owner, spender)}

currentAllowance(token, tokenId, owner, spender) ==
  LET hit == ApprovalHits(token, tokenId, owner, spender)
  IN  IF hit = {} THEN 0 ELSE token.approvals[SetMax(hit)].allowance

\* A faulty variant of spendAllowance, for which C7 fails: the matching
\* allowance is cleared instead of reduced.
spendAllowance_Cleared(token, tokenId, owner, spender, amount) ==
  [i \in 1 .. Len(token.approvals) |->
     IF IsApproval(token.approvals[i], tokenId, owner, spender)
     THEN [token.approvals[i] EXCEPT !.allowance = 0]
     ELSE token.approvals[i]]

\* The approvals of `token` after a transferFrom of `amount` (lines 423-446).
spendAllowance(token, tokenId, owner, spender, amount) ==
  [i \in 1 .. Len(token.approvals) |->
     IF IsApproval(token.approvals[i], tokenId, owner, spender)
     THEN [token.approvals[i] EXCEPT !.allowance =
             IF token.approvals[i].allowance >= amount
             THEN token.approvals[i].allowance - amount
             ELSE 0]
     ELSE token.approvals[i]]

\* Faulty variants of transferFrom, for which C5 and C8 fail: one that never
\* compares the amount with the allowance, and one that reduces the allowance
\* before the balance check and does not restore it.
transferFrom_Unchecked(tk, caller, tokenId, owner, recipient, amount) ==
  LET idx == findTokenIndex(tk, tokenId)
  IN  IF idx = NoIdx THEN [res |-> "TokenNotFound", tokens |-> tk]
      ELSE IF caller = owner
      THEN LET m == transferTokens(tk, idx, owner, recipient, amount)
           IN  IF m.ok THEN [res |-> "ok", tokens |-> m.tokens]
               ELSE [res |-> "InsufficientBalance", tokens |-> tk]
      ELSE LET token == tk[idx]
               m == transferTokens(tk, idx, owner, recipient, amount)
           IN  IF ApprovalHits(token, tokenId, owner, caller) = {} \/ ~m.ok
               THEN [res |-> "InsufficientBalance", tokens |-> tk]
               ELSE [res |-> "ok",
                     tokens |-> [m.tokens EXCEPT ![idx] =
                                   [token EXCEPT !.approvals =
                                      spendAllowance(token, tokenId, owner, caller, amount)]]]

transferFrom_NoRollback(tk, caller, tokenId, owner, recipient, amount) ==
  LET idx == findTokenIndex(tk, tokenId)
  IN  IF idx = NoIdx THEN [res |-> "TokenNotFound", tokens |-> tk]
      ELSE IF caller = owner
      THEN LET m == transferTokens(tk, idx, owner, recipient, amount)
           IN  IF m.ok THEN [res |-> "ok", tokens |-> m.tokens]
               ELSE [res |-> "InsufficientBalance", tokens |-> tk]
      ELSE LET token == tk[idx]
               spent == [tk EXCEPT ![idx] =
                           [token EXCEPT !.approvals =
                              spendAllowance(token, tokenId, owner, caller, amount)]]
               m == transferTokens(tk, idx, owner, recipient, amount)
           IN  IF ApprovalHits(token, tokenId, owner, caller) = {}
                  \/ currentAllowance(token, tokenId, owner, caller) < amount
               THEN [res |-> "InsufficientBalance", tokens |-> tk]
               ELSE IF ~m.ok THEN [res |-> "InsufficientBalance", tokens |-> spent]
               ELSE [res |-> "ok", tokens |-> spent]

\* The allowance branch reads `token` before transferTokens runs and writes
\* that record back with the new approvals, as lines 400 and 448-457 do.
transferFrom(tk, caller, tokenId, owner, recipient, amount) ==
  LET idx == findTokenIndex(tk, tokenId)
  IN  IF idx = NoIdx THEN [res |-> "TokenNotFound", tokens |-> tk]
      ELSE IF caller = owner
      THEN LET m == transferTokens(tk, idx, owner, recipient, amount)
           IN  IF m.ok THEN [res |-> "ok", tokens |-> m.tokens]
               ELSE [res |-> "InsufficientBalance", tokens |-> tk]
      ELSE LET token == tk[idx]
               allowanceFound == ApprovalHits(token, tokenId, owner, caller) # {}
           IN  IF ~allowanceFound \/ currentAllowance(token, tokenId, owner, caller) < amount
               THEN [res |-> "InsufficientBalance", tokens |-> tk]
               ELSE LET m == transferTokens(tk, idx, owner, recipient, amount)
                    IN  IF ~m.ok THEN [res |-> "InsufficientBalance", tokens |-> tk]
                        ELSE LET updatedToken ==
                                   [token EXCEPT !.approvals =
                                      spendAllowance(token, tokenId, owner, caller, amount)]
                             IN  [res |-> "ok",
                                  tokens |-> [m.tokens EXCEPT ![idx] = updatedToken]]

\* ------------------------------------------------------ marketplace functions
\* The lookup loop of buy and cancel_listing has no break: the last match wins.
findListingIndex(ls, listingId) ==
  LET hit == {i \in 1 .. Len(ls) : ls[i].id = listingId}
  IN  IF hit = {} THEN NoIdx ELSE SetMax(hit)

\* A faulty variant of create_listing, for which C23 fails: the seller's
\* balance is not checked.
create_listing_Unchecked(tk, ls, nextId, caller, tokenId, amount, price_tokenId, price_amount_per_token) ==
  LET idx == findTokenIndex(tk, tokenId)
  IN  IF idx = NoIdx THEN [res |-> "TokenNotFound", listings |-> ls, next |-> nextId]
      ELSE [res |-> "ok",
            listings |-> Append(ls, [id |-> nextId,
                                     tokenId |-> tokenId,
                                     seller |-> caller,
                                     amount |-> amount,
                                     price_tokenId |-> price_tokenId,
                                     price_amount_per_token |-> price_amount_per_token,
                                     active |-> TRUE]),
            next |-> nextId + 1]

create_listing(tk, ls, nextId, caller, tokenId, amount, price_tokenId, price_amount_per_token) ==
  LET idx == findTokenIndex(tk, tokenId)
  IN  IF idx = NoIdx THEN [res |-> "TokenNotFound", listings |-> ls, next |-> nextId]
      ELSE IF getBalance(tk, idx, caller) < amount
      THEN [res |-> "InsufficientBalance", listings |-> ls, next |-> nextId]
      ELSE [res |-> "ok",
            listings |-> Append(ls, [id |-> nextId,
                                     tokenId |-> tokenId,
                                     seller |-> caller,
                                     amount |-> amount,
                                     price_tokenId |-> price_tokenId,
                                     price_amount_per_token |-> price_amount_per_token,
                                     active |-> TRUE]),
            next |-> nextId + 1]

\* A faulty variant of cancel_listing, for which C19 fails: the seller is not
\* checked.
cancel_listing_AnyCaller(ls, caller, listingId) ==
  LET idx == findListingIndex(ls, listingId)
  IN  IF idx = NoIdx THEN [res |-> "ListingNotFound", listings |-> ls]
      ELSE [res |-> "ok", listings |-> [ls EXCEPT ![idx] = [ls[idx] EXCEPT !.active = FALSE]]]

cancel_listing(ls, caller, listingId) ==
  LET idx == findListingIndex(ls, listingId)
  IN  IF idx = NoIdx THEN [res |-> "ListingNotFound", listings |-> ls]
      ELSE IF ls[idx].seller # caller THEN [res |-> "NotSeller", listings |-> ls]
      ELSE [res |-> "ok", listings |-> [ls EXCEPT ![idx] = [ls[idx] EXCEPT !.active = FALSE]]]

\* A faulty variant of buyValidate, for which C24 fails: the active flag is
\* not checked.
buyValidate_AnyState(ls, listingId, amount_to_buy) ==
  LET idx == findListingIndex(ls, listingId)
  IN  IF idx = NoIdx THEN [res |-> "ListingNotFound", idx |-> NoIdx]
      ELSE IF amount_to_buy > ls[idx].amount THEN [res |-> "InsufficientListedAmount", idx |-> idx]
      ELSE [res |-> "ok", idx |-> idx]

\* buy up to its first await: the checks, and the local values the rest of the
\* call keeps using (idx, listing, total_price).
buyValidate(ls, listingId, amount_to_buy) ==
  LET idx == findListingIndex(ls, listingId)
  IN  IF idx = NoIdx THEN [res |-> "ListingNotFound", idx |-> NoIdx]
      ELSE IF ~ls[idx].active THEN [res |-> "ListingInactive", idx |-> idx]
      ELSE IF amount_to_buy > ls[idx].amount THEN [res |-> "InsufficientListedAmount", idx |-> idx]
      ELSE [res |-> "ok", idx |-> idx]

\* buy after both legs returned #ok: the listing record is rebuilt from the
\* `listing` value read before the first await.
buyUpdateListing(ls, idx, listing, amount_to_buy) ==
  LET newAmount == listing.amount - amount_to_buy
      updatedListing == [listing EXCEPT !.amount = newAmount,
                                        !.active = IF newAmount = 0 THEN FALSE ELSE TRUE]
  IN  [j \in 1 .. Len(ls) |-> IF j = idx THEN updatedListing ELSE ls[j]]

\* ------------------------------------------------------------ state machine
Slots == 1 .. MaxBuys

\* A buy call between its awaits: the locals of the call (caller, idx, listing,
\* amount_to_buy, total_price), the await it stands at (pc), the reply of the
\* self-call once that has run (leg), and a history field: the ledger at the
\* moment the call started (pre), kept for as long as no other call has
\* changed the ledger or the listings since then (clean).
Idle == [pc |-> "idle", caller |-> Anonymous, idx |-> NoIdx, listing |-> << >>,
         amount_to_buy |-> 0, total_price |-> 0, leg |-> "", pre |-> << >>,
         clean |-> TRUE]

InFlight(i) == buys[i].pc # "idle"

\* Another call changed the ledger or the listings: every suspended buy other
\* than `self` has been interleaved with.
Touch(b, self, changed) ==
  [i \in Slots |-> IF changed /\ i # self /\ b[i].pc # "idle"
                   THEN [b[i] EXCEPT !.clean = FALSE, !.pre = << >>]
                   ELSE b[i]]

RECURSIVE SumBalances(_)
SumBalances(bal) ==
  IF bal = << >> THEN 0 ELSE bal[1][2] + SumBalances(Tail(bal))

\* The model's bounds on the sizes the actions may reach.
Bounded(tk) ==
  \A i \in 1 .. Len(tk) : /\ SumBalances(tk[i].balances) <= MaxBalance
                          /\ Len(tk[i].approvals) <= MaxApprovals

GrantKeys == (0 .. MaxTokens - 1) \X Users \X Accounts

Granted(g, res, caller, tokenId, spender, allowance) ==
  IF res = "ok" /\ <<tokenId, caller, spender>> \in GrantKeys
  THEN [g EXCEPT ![<<tokenId, caller, spender>>] = [n |-> allowance, spent |-> 0, moved |-> 0]]
  ELSE g

Charged(g, r, caller, tokenId, owner, amount) ==
  IF r.res = "ok" /\ caller # owner /\ <<tokenId, owner, caller>> \in GrantKeys
  THEN [g EXCEPT ![<<tokenId, owner, caller>>].spent = @ + amount,
                 ![<<tokenId, owner, caller>>].moved =
                   @ + balance_of(tokens, tokenId, owner) - balance_of(r.tokens, tokenId, owner)]
  ELSE g

Init ==
  /\ tokens = << >>
  /\ listings = << >>
  /\ nextTokenId = 0
  /\ nextListingId = 0
  /\ buys = [i \in Slots |-> Idle]
  /\ ret = [op |-> "none", res |-> "none"]
  /\ grants = [key \in GrantKeys |-> [n |-> 0, spent |-> 0, moved |-> 0]]
  /\ userProfiles = << >>
  /\ adminPrincipals = {}
  /\ now = 0
  /\ cancelled = {}
  /\ sales = [l \in 0 .. MaxListings - 1 |-> [listed |-> 0, sold |-> 0]]

\* The reply a caller receives, where a specification records it.
Reply(op, res) == ret' = [op |-> op, res |-> res]

\* What the step of buy that resumes call f returns to the buyer ("none"
\* while the call goes on to its next await).
buyReturn(f) ==
  CASE f.pc = "retA" /\ f.leg # "ok" -> "PaymentFailed"
    [] f.pc = "retB" /\ f.leg = "ok" -> "ok"
    [] f.pc = "retR" -> "TokenTransferFailed"
    [] OTHER -> "none"

CallCreateToken(caller, nameSize, symbolSize, initial_supply) ==
  LET r == create_token(tokens, nextTokenId, caller, nameSize, symbolSize, initial_supply)
  IN  /\ Len(r.tokens) <= MaxTokens
      /\ tokens' = r.tokens
      /\ nextTokenId' = r.next
      /\ buys' = Touch(buys, 0, r.tokens # tokens)
      /\ UNCHANGED <<listings, nextListingId, grants>>

CallTransfer(caller, tokenId, to, amount) ==
  LET r == transfer(tokens, caller, tokenId, to, amount)
  IN  /\ Bounded(r.tokens)
      /\ tokens' = r.tokens
      /\ buys' = Touch(buys, 0, r.tokens # tokens)
      /\ UNCHANGED <<listings, nextTokenId, nextListingId, grants>>

CallApprove(caller, tokenId, spender, allowance) ==
  LET r == approve(tokens, caller, tokenId, spender, allowance)
  IN  /\ Bounded(r.tokens)
      /\ tokens' = r.tokens
      /\ grants' = Granted(grants, r.res, caller, tokenId, spender, allowance)
      /\ buys' = Touch(buys, 0, r.tokens # tokens)
      /\ UNCHANGED <<listings, nextTokenId, nextListingId>>

CallTransferFrom(caller, tokenId, owner, recipient, amount) ==
  LET r == transferFrom(tokens, caller, tokenId, owner, recipient, amount)
  IN  /\ Bounded(r.tokens)
      /\ tokens' = r.tokens
      /\ grants' = Charged(grants, r, caller, tokenId, owner, amount)
      /\ buys' = Touch(buys, 0, r.tokens # tokens)
      /\ UNCHANGED <<listings, nextTokenId, nextListingId>>

CallCreateListing(caller, tokenId, amount, price_tokenId, price_amount_per_token) ==
  LET r == create_listing(tokens, listings, nextListingId, caller, tokenId, amount,
                          price_tokenId, price_amount_per_token)
  IN  /\ Len(r.listings) <= MaxListings
      /\ listings' = r.listings
      /\ nextListingId' = r.next
      /\ buys' = Touch(buys, 0, r.listings # listings)
      /\ UNCHANGED <<tokens, nextTokenId, grants>>

CallCancelListing(caller, listingId) ==
  LET r == cancel_listing(listings, caller, listingId)
  IN  /\ listings' = r.listings
      /\ buys' = Touch(buys, 0, r.listings # listings)
      /\ UNCHANGED <<tokens, nextTokenId, nextListingId, grants>>

\* buy, lines 505-536: validate, then send Leg A and suspend.
BuyStart(caller, listingId, amount_to_buy) ==
  LET v == buyValidate(listings, listingId, amount_to_buy)
  IN  /\ IF v.res # "ok"
         THEN UNCHANGED buys
         ELSE /\ \E i \in Slots : ~InFlight(i)
              /\ LET i == SetMin({j \in Slots : ~InFlight(j)})
                     listing == listings[v.idx]
                 IN  buys' = [buys EXCEPT ![i] =
                                [pc |-> "legA", caller |-> caller, idx |-> v.idx,
                                 listing |-> listing, amount_to_buy |-> amount_to_buy,
                                 total_price |-> amount_to_buy * listing.price_amount_per_token,
                                 leg |-> "", pre |-> tokens, clean |-> TRUE]]
      /\ UNCHANGED <<tokens, listings, nextTokenId, nextListingId, grants>>

\* The self-call transferFrom(price_tokenId, caller, seller, total_price) runs.
LegA(f) ==
  transferFrom(tokens, Engine, f.listing.price_tokenId, f.caller, f.listing.seller,
               f.total_price)

ExecLegA(i) ==
  /\ buys[i].pc = "legA"
  /\ LET r == LegA(buys[i])
         f == buys[i]
     IN  /\ tokens' = r.tokens
         /\ grants' = Charged(grants, r, Engine, f.listing.price_tokenId, f.caller,
                              f.total_price)
         /\ buys' = Touch([buys EXCEPT ![i].pc = "retA", ![i].leg = r.res], i,
                          r.tokens # tokens)
  /\ UNCHANGED <<listings, nextTokenId, nextListingId>>

\* A faulty variant of AfterLegA, for which C34 fails: the call goes on only
\* when no other buy call is waiting at the same point.
AfterLegA_Locked(i) ==
  /\ buys[i].pc = "retA"
  /\ \A j \in Slots \ {i} : buys[j].pc # "retA"
  /\ IF buys[i].leg # "ok"
     THEN buys' = [buys EXCEPT ![i] = Idle]
     ELSE buys' = [buys EXCEPT ![i].pc = "legB", ![i].leg = ""]
  /\ UNCHANGED <<tokens, listings, nextTokenId, nextListingId, grants>>

\* buy resumes with the reply of Leg A (lines 536-540).
AfterLegA(i) ==
  /\ buys[i].pc = "retA"
  /\ IF buys[i].leg # "ok"
     THEN buys' = [buys EXCEPT ![i] = Idle]
     ELSE buys' = [buys EXCEPT ![i].pc = "legB", ![i].leg = ""]
  /\ UNCHANGED <<tokens, listings, nextTokenId, nextListingId, grants>>

\* The self-call transferFrom(tokenId, seller, caller, amount_to_buy) runs.
LegB(f) ==
  transferFrom(tokens, Engine, f.listing.tokenId, f.listing.seller, f.caller,
               f.amount_to_buy)

ExecLegB(i) ==
  /\ buys[i].pc = "legB"
  /\ LET r == LegB(buys[i])
         f == buys[i]
     IN  /\ tokens' = r.tokens
         /\ grants' = Charged(grants, r, Engine, f.listing.tokenId, f.listing.seller,
                              f.amount_to_buy)
         /\ buys' = Touch([buys EXCEPT ![i].pc = "retB", ![i].leg = r.res], i,
                          r.tokens # tokens)
  /\ UNCHANGED <<listings, nextTokenId, nextListingId>>

\* A faulty variant of AfterLegB, for which C32 fails: the listing is written
\* whatever Leg B returned.
AfterLegB_AlwaysWrites(i) ==
  /\ buys[i].pc = "retB"
  /\ LET f == buys[i]
         ls == buyUpdateListing(listings, f.idx, f.listing, f.amount_to_buy)
     IN  /\ listings' = ls
         /\ IF f.leg # "ok"
            THEN buys' = Touch([buys EXCEPT ![i].pc = "refund", ![i].leg = ""], i, ls # listings)
            ELSE buys' = Touch([buys EXCEPT ![i] = Idle], i, ls # listings)
  /\ UNCHANGED <<tokens, nextTokenId, nextListingId, grants>>

\* buy resumes with the reply of Leg B (lines 540-566).
AfterLegB(i) ==
  /\ buys[i].pc = "retB"
  /\ IF buys[i].leg # "ok"
     THEN /\ buys' = [buys EXCEPT ![i].pc = "refund", ![i].leg = ""]
          /\ UNCHANGED listings
     ELSE LET f == buys[i]
              ls == buyUpdateListing(listings, f.idx, f.listing, f.amount_to_buy)
          IN  /\ listings' = ls
              /\ buys' = Touch([buys EXCEPT ![i] = Idle], i, ls # listings)
  /\ UNCHANGED <<tokens, nextTokenId, nextListingId, grants>>

\* The self-call transfer(price_tokenId, caller, total_price) runs: its caller
\* is the canister itself.
Refund(f) == transfer(tokens, Engine, f.listing.price_tokenId, f.caller, f.total_price)

ExecRefund(i) ==
  /\ buys[i].pc = "refund"
  /\ LET r == Refund(buys[i])
     IN  /\ tokens' = r.tokens
         /\ buys' = Touch([buys EXCEPT ![i].pc = "retR", ![i].leg = r.res], i,
                          r.tokens # tokens)
  /\ UNCHANGED <<listings, nextTokenId, nextListingId, grants>>

\* buy resumes after the refund: its reply is ignored (line 543).
AfterRefund(i) ==
  /\ buys[i].pc = "retR"
  /\ buys' = [buys EXCEPT ![i] = Idle]
  /\ UNCHANGED <<tokens, listings, nextTokenId, nextListingId, grants>>

\* ------------------------------------------------------------------ inputs
TokenIds == 0 .. MaxTokens - 1
ListingIds == 0 .. MaxListings - 1
Creators == Users \cup {Anonymous}
NameSizes == {1, 2}
SymbolSizes == {2}
Supplies == {0, MaxAmount}
\* The ledger specification drives one token with every kind of call; a second
\* token may exist beside it.  The token functions treat all users alike, so
\* one user mints.
LedgerTokenIds == {0}
LedgerCreators == {"a", Anonymous}
\* The marketplace specification: user "a" lists token 0 priced in token 1,
\* user "b" buys; users fund the engine's account and approve the engine.
Sellers == {"a"}
Buyers == {"b"}
ListedTokenIds == {0}
PriceTokenIds == {1}
Prices == {1}

\* ------------------------------------------------- the ledger specification
\* Direct calls of the four token functions, each reply recorded in ret.
LedgerCreateToken(c, n, y, s) ==
  /\ CallCreateToken(c, n, y, s)
  /\ Reply("create_token", create_token(tokens, nextTokenId, c, n, y, s).res)
  /\ UNCHANGED others

LedgerTransfer(c, t, to, k) ==
  /\ CallTransfer(c, t, to, k)
  /\ Reply("transfer", transfer(tokens, c, t, to, k).res)
  /\ UNCHANGED others

LedgerApprove(c, t, sp, k) ==
  /\ CallApprove(c, t, sp, k)
  /\ Reply("approve", approve(tokens, c, t, sp, k).res)
  /\ UNCHANGED others

LedgerTransferFrom(c, t, o, r, k) ==
  /\ CallTransferFrom(c, t, o, r, k)
  /\ Reply("transferFrom", transferFrom(tokens, c, t, o, r, k).res)
  /\ UNCHANGED others

NextLedger ==
  \/ \E c \in LedgerCreators, n \in NameSizes, y \in SymbolSizes, s \in Supplies :
       LedgerCreateToken(c, n, y, s)
  \/ \E c \in Users, t \in LedgerTokenIds, to \in Accounts, k \in Amounts :
       LedgerTransfer(c, t, to, k)
  \/ \E c \in Users, t \in LedgerTokenIds, sp \in Accounts, k \in Amounts :
       LedgerApprove(c, t, sp, k)
  \/ \E c \in Users, t \in LedgerTokenIds, o \in Users, r \in Accounts, k \in Amounts :
       LedgerTransferFrom(c, t, o, r, k)

SpecLedger == Init /\ [][NextLedger]_vars

\* ------------------------------------------------ the approval specification
\* One owner grants and changes allowances of several spenders on one token,
\* and the spenders use them; a token holds up to MaxKeys approval entries.
WithinKeys(tk) == \A i \in 1 .. Len(tk) : Len(tk[i].approvals) <= MaxKeys

KeysApprove(c, t, sp, k) ==
  LET r == approve(tokens, c, t, sp, k)
  IN  /\ WithinKeys(r.tokens)
      /\ tokens' = r.tokens
      /\ grants' = Granted(grants, r.res, c, t, sp, k)
      /\ Reply("approve", r.res)
      /\ UNCHANGED <<listings, nextTokenId, nextListingId, buys, others>>

KeysTransferFrom(c, t, o, rc, k) ==
  LET r == transferFrom(tokens, c, t, o, rc, k)
  IN  /\ WithinKeys(r.tokens)
      /\ tokens' = r.tokens
      /\ grants' = Charged(grants, r, c, t, o, k)
      /\ Reply("transferFrom", r.res)
      /\ UNCHANGED <<listings, nextTokenId, nextListingId, buys, others>>

KeyOwners == {"a"}
KeySpenders == {"b", Engine}

NextApprove ==
  \/ \E c \in KeyOwners : LedgerCreateToken(c, 2, 2, MaxAmount)
  \/ \E c \in KeyOwners, t \in LedgerTokenIds, sp \in Accounts, k \in Amounts :
       KeysApprove(c, t, sp, k)
  \/ \E c \in KeySpenders, t \in LedgerTokenIds, o \in KeyOwners, k \in Amounts :
       KeysTransferFrom(c, t, o, c, k)

SpecApprove == Init /\ [][NextApprove]_vars

\* ------------------------------------------- the role-based actor (main.mo)
\* userProfiles is a map: a function whose domain is the set of principals
\* that have a profile.
Roles == {"Admin", "Creator", "User"}

HasProfile(up, principal) == principal \in DOMAIN up

Put(up, principal, profile) ==
  [q \in DOMAIN up \cup {principal} |-> IF q = principal THEN profile ELSE up[q]]

\* A faulty variant of isAdmin, for which C18 fails: everyone is an admin.
isAdmin_Anyone(up, admins, principal) == TRUE

isAdmin(up, admins, principal) ==
  IF HasProfile(up, principal) THEN up[principal].role = "Admin"
  ELSE principal \in admins

\* A faulty variant of hasCreatePermission, for which C26 fails: the policy
\* that lets only Admins and Creators create tokens.
hasCreatePermission_ByRole(principal) ==
  IF HasProfile(userProfiles, principal)
  THEN userProfiles[principal].role \in {"Admin", "Creator"}
  ELSE isAdmin(userProfiles, adminPrincipals, principal)

hasCreatePermission(principal) == TRUE

getUserOrCreate(up, admins, principal, t) ==
  IF HasProfile(up, principal) THEN up
  ELSE Put(up, principal,
           [role |-> IF isAdmin(up, admins, principal) THEN "Admin" ELSE "User",
            createdAt |-> t, lastActive |-> t, tokensCreated |-> 0,
            isVerified |-> FALSE])

\* A faulty variant of updateUserActivity, for which C33 fails: the rewritten
\* profile gets the role User.
updateUserActivity_Demoting(up, admins, principal, t) ==
  IF HasProfile(up, principal)
  THEN Put(up, principal, [up[principal] EXCEPT !.lastActive = t, !.role = "User"])
  ELSE getUserOrCreate(up, admins, principal, t)

updateUserActivity(up, admins, principal, t) ==
  IF HasProfile(up, principal)
  THEN Put(up, principal, [up[principal] EXCEPT !.lastActive = t])
  ELSE getUserOrCreate(up, admins, principal, t)

\* initialize_user, get_or_create_profile and ping change the state alike.
initialize_user(up, admins, caller, t) ==
  getUserOrCreate(updateUserActivity(up, admins, caller, t), admins, caller, t)

\* A faulty variant of set_user_role, for which C38 fails: the rewritten
\* profile starts counting tokens again.
set_user_role_Resetting(up, admins, caller, user, role, t) ==
  IF ~isAdmin(up, admins, caller) THEN [res |-> FALSE, userProfiles |-> up]
  ELSE LET created == getUserOrCreate(up, admins, user, t)
       IN  [res |-> TRUE,
            userProfiles |-> Put(created, user, [created[user] EXCEPT !.role = role,
                                                                      !.tokensCreated = 0])]

set_user_role(up, admins, caller, user, role, t) ==
  IF ~isAdmin(up, admins, caller) THEN [res |-> FALSE, userProfiles |-> up]
  ELSE LET created == getUserOrCreate(up, admins, user, t)
       IN  [res |-> TRUE,
            userProfiles |-> Put(created, user, [created[user] EXCEPT !.role = role])]

\* A faulty variant of createTokenCheck, for which C14 fails: the name is
\* checked before the caller.
createTokenCheck_NameFirst(caller, nameSize, symbolSize, initial_supply) ==
  IF ~isValidName(nameSize) THEN "InvalidName"
  ELSE IF caller = Anonymous THEN "AnonymousNotAllowed"
  ELSE IF ~hasCreatePermission(caller) THEN "InsufficientPermissions"
  ELSE IF ~isValidSymbol(symbolSize) THEN "InvalidSymbol"
  ELSE IF initial_supply = 0 THEN "InvalidSupply"
  ELSE "ok"

\* The validation of create_token (main.mo 362-384): the error it returns,
\* "ok" when it returns none.
createTokenCheck(caller, nameSize, symbolSize, initial_supply) ==
  IF caller = Anonymous THEN "AnonymousNotAllowed"
  ELSE IF ~hasCreatePermission(caller) THEN "InsufficientPermissions"
  ELSE IF ~isValidName(nameSize) THEN "InvalidName"
  ELSE IF ~isValidSymbol(symbolSize) THEN "InvalidSymbol"
  ELSE IF initial_supply = 0 THEN "InvalidSupply"
  ELSE "ok"

\* No token id: the id field of a reply that is an error.
NoId == -1

\* A faulty variant of create_token, for which C16 fails: the counter
\* advances on a rejected call too.
PulseMarket_create_token_Skipping(tk, nextId, up, admins, caller, nameSize, symbolSize, initial_supply, t) ==
  LET active == updateUserActivity(up, admins, caller, t)
      e == createTokenCheck(caller, nameSize, symbolSize, initial_supply)
  IN  IF e # "ok"
      THEN [res |-> e, id |-> NoId, tokens |-> tk, next |-> nextId + 1,
            userProfiles |-> active]
      ELSE LET profiles == getUserOrCreate(active, admins, caller, t)
           IN  [res |-> "ok", id |-> nextId,
                tokens |-> Append(tk, [id |-> nextId,
                                       total_supply |-> initial_supply,
                                       minting_account |-> caller,
                                       balances |-> << <<caller, initial_supply>> >>]),
                next |-> nextId + 1,
                userProfiles |-> Put(profiles, caller,
                                     [profiles[caller] EXCEPT !.tokensCreated = @ + 1])]

\* create_token of main.mo: updateUserActivity runs before the validation.
PulseMarket_create_token(tk, nextId, up, admins, caller, nameSize, symbolSize, initial_supply, t) ==
  LET active == updateUserActivity(up, admins, caller, t)
      e == createTokenCheck(caller, nameSize, symbolSize, initial_supply)
  IN  IF e # "ok"
      THEN [res |-> e, id |-> NoId, tokens |-> tk, next |-> nextId,
            userProfiles |-> active]
      ELSE LET profiles == getUserOrCreate(active, admins, caller, t)
           IN  [res |-> "ok", id |-> nextId,
                tokens |-> Append(tk, [id |-> nextId,
                                       total_supply |-> initial_supply,
                                       minting_account |-> caller,
                                       balances |-> << <<caller, initial_supply>> >>]),
                next |-> nextId + 1,
                userProfiles |-> Put(profiles, caller,
                                     [profiles[caller] EXCEPT !.tokensCreated = @ + 1])]

\* transfer of main.mo: updateUserActivity, then the body of transfer.
PulseMarket_transfer(tk, up, admins, caller, tokenId, to, amount, t) ==
  LET r == transfer(tk, caller, tokenId, to, amount)
  IN  [res |-> r.res, tokens |-> r.tokens,
       userProfiles |-> updateUserActivity(up, admins, caller, t)]

\* preupgrade writes the entries of userProfiles to userProfilesStable, in
\* some order; postupgrade builds the map from them again.
RECURSIVE entries(_)
entries(up) ==
  IF DOMAIN up = {} THEN << >>
  ELSE LET p == CHOOSE q \in DOMAIN up : TRUE
       IN  <<<<p, up[p]>>>> \o entries([q \in DOMAIN up \ {p} |-> up[q]])

\* A faulty variant of fromIter, for which C25 fails: the last saved entry is
\* left out.
RECURSIVE fromIter_Short(_)
fromIter_Short(stable) ==
  IF Len(stable) <= 1 THEN << >>
  ELSE Put(fromIter_Short(SubSeq(stable, 1, Len(stable) - 1)),
           stable[Len(stable) - 1][1], stable[Len(stable) - 1][2])

RECURSIVE fromIter(_)
fromIter(stable) ==
  IF stable = << >> THEN << >>
  ELSE Put(fromIter(SubSeq(stable, 1, Len(stable) - 1)),
           stable[Len(stable)][1], stable[Len(stable)][2])

\* The reply of a call of the role-based actor, with its caller.
ReplyTo(op, res, caller) == ret' = [op |-> op, res |-> res, caller |-> caller]

ledgerOnly == <<listings, nextListingId, buys, grants, cancelled, sales>>

UserCreateToken(c, n, y, s) ==
  LET r == PulseMarket_create_token(tokens, nextTokenId, userProfiles, adminPrincipals,
                                    c, n, y, s, now)
  IN  /\ Len(r.tokens) <= MaxTokens
      /\ tokens' = r.tokens
      /\ nextTokenId' = r.next
      /\ userProfiles' = r.userProfiles
      /\ ReplyTo("create_token", r.res, c)
      /\ UNCHANGED <<adminPrincipals, now, ledgerOnly>>

UserTransfer(c, t, to, k) ==
  LET r == PulseMarket_transfer(tokens, userProfiles, adminPrincipals, c, t, to, k, now)
  IN  /\ tokens' = r.tokens
      /\ userProfiles' = r.userProfiles
      /\ ReplyTo("transfer", r.res, c)
      /\ UNCHANGED <<nextTokenId, adminPrincipals, now, ledgerOnly>>

UserInitialize(op, c) ==
  /\ userProfiles' = initialize_user(userProfiles, adminPrincipals, c, now)
  /\ ReplyTo(op, "profile", c)
  /\ UNCHANGED <<tokens, nextTokenId, adminPrincipals, now, ledgerOnly>>

UserSetRole(c, u, role) ==
  LET r == set_user_role(userProfiles, adminPrincipals, c, u, role, now)
  IN  /\ userProfiles' = r.userProfiles
      /\ ReplyTo("set_user_role", r.res, c)
      /\ UNCHANGED <<tokens, nextTokenId, adminPrincipals, now, ledgerOnly>>

Upgrade ==
  /\ userProfiles' = fromIter(entries(userProfiles))
  /\ adminPrincipals' = {AdminPrincipal}
  /\ ReplyTo("upgrade", "none", Engine)
  /\ UNCHANGED <<tokens, nextTokenId, now, ledgerOnly>>

Tick ==
  /\ now < MaxTime
  /\ now' = now + 1
  /\ ReplyTo("tick", "none", Engine)
  /\ UNCHANGED <<tokens, nextTokenId, userProfiles, adminPrincipals, ledgerOnly>>

UserCreators == {"a", Anonymous}
UserNameSizes == {1, 2, 51}
UserSymbolSizes == {1, 2, 11}
RoleSetters == {"a", AdminPrincipal}
RoleTargets == {"a", AdminPrincipal}
ProfileCalls == {"get_or_create_profile", "ping"}

NextUsers ==
  \/ \E c \in UserCreators, n \in UserNameSizes, y \in UserSymbolSizes, s \in Supplies :
       UserCreateToken(c, n, y, s)
  \/ \E c \in UserCreators, t \in LedgerTokenIds, to \in Users :
       UserTransfer(c, t, to, MaxAmount)
  \/ \E c \in UserCreators \cup {AdminPrincipal} : UserInitialize("initialize_user", c)
  \/ \E op \in ProfileCalls, c \in UserCreators \ {Anonymous} : UserInitialize(op, c)
  \/ \E c \in RoleSetters, u \in RoleTargets, role \in Roles : UserSetRole(c, u, role)
  \/ Upgrade
  \/ Tick

SpecUsers == Init /\ [][NextUsers]_vars

\* -------------------------------------------- the marketplace specification
\* Listings and concurrent buy calls, interleaved with direct ledger calls.
\* Replies are not recorded: buyReturn gives what a resuming step returns.
Next ==
  \/ \E c \in Creators, s \in Supplies : CallCreateToken(c, 2, 2, s) /\ UNCHANGED <<ret, others>>
  \/ \E c \in Users, t \in TokenIds : CallTransfer(c, t, Engine, 1) /\ UNCHANGED <<ret, others>>
  \/ \E c \in Users, t \in TokenIds : CallApprove(c, t, Engine, MaxAmount) /\ UNCHANGED <<ret, others>>
  \/ \E c \in Sellers, t \in ListedTokenIds, pt \in PriceTokenIds, p \in Prices :
       CallCreateListing(c, t, MaxAmount, pt, p) /\ UNCHANGED <<ret, others>>
  \/ \E c \in Users, l \in ListingIds : CallCancelListing(c, l) /\ UNCHANGED <<ret, others>>
  \/ \E c \in Buyers, l \in ListingIds, k \in 1 .. MaxAmount :
       BuyStart(c, l, k) /\ UNCHANGED <<ret, others>>
  \/ \E i \in Slots : ExecLegA(i) /\ UNCHANGED <<ret, others>>
  \/ \E i \in Slots : AfterLegA(i) /\ UNCHANGED <<ret, others>>
  \/ \E i \in Slots : ExecLegB(i) /\ UNCHANGED <<ret, others>>
  \/ \E i \in Slots : AfterLegB(i) /\ UNCHANGED <<ret, others>>
  \/ \E i \in Slots : ExecRefund(i) /\ UNCHANGED <<ret, others>>
  \/ \E i \in Slots : AfterRefund(i) /\ UNCHANGED <<ret, others>>

Spec == Init /\ [][Next]_vars

\* ------------------------------------------- the cancellation specification
\* The marketplace with every reply of cancel_listing recorded in ret and
\* every listing that was cancelled recorded in cancelled.  User "a" creates
\* the listed token and user "b" the price token; each approves the engine
\* for its own token.
TokenOf(c) == IF c = "a" THEN 0 ELSE 1

CancelCreateToken(c) ==
  /\ nextTokenId = TokenOf(c)
  /\ CallCreateToken(c, 2, 2, MaxAmount)
  /\ UNCHANGED <<ret, others>>

CancelApprove(c) ==
  /\ CallApprove(c, TokenOf(c), Engine, MaxAmount)
  /\ UNCHANGED <<ret, others>>

CancelListing(c, l) ==
  LET r == cancel_listing(listings, c, l)
  IN  /\ CallCancelListing(c, l)
      /\ Reply("cancel_listing", r.res)
      /\ cancelled' = IF r.res = "ok" THEN cancelled \cup {l} ELSE cancelled
      /\ UNCHANGED <<userProfiles, adminPrincipals, now, sales>>

NextCancel ==
  \/ \E c \in Users : CancelCreateToken(c)
  \/ \E c \in Users : CancelApprove(c)
  \/ \E c \in Sellers, t \in ListedTokenIds, pt \in PriceTokenIds, p \in Prices :
       CallCreateListing(c, t, MaxAmount, pt, p) /\ UNCHANGED <<ret, others>>
  \/ \E c \in Users, l \in ListingIds : CancelListing(c, l)
  \/ \E c \in Buyers, l \in ListingIds, k \in 1 .. MaxAmount :
       BuyStart(c, l, k) /\ UNCHANGED <<ret, others>>
  \/ \E i \in Slots : ExecLegA(i) /\ UNCHANGED <<ret, others>>
  \/ \E i \in Slots : AfterLegA(i) /\ UNCHANGED <<ret, others>>
  \/ \E i \in Slots : ExecLegB(i) /\ UNCHANGED <<ret, others>>
  \/ \E i \in Slots : AfterLegB(i) /\ UNCHANGED <<ret, others>>
  \/ \E i \in Slots : ExecRefund(i) /\ UNCHANGED <<ret, others>>
  \/ \E i \in Slots : AfterRefund(i) /\ UNCHANGED <<ret, others>>

SpecCancel == Init /\ [][NextCancel]_vars

\* --------------------------------------------------- the listing specification
\* Users create tokens, move them between each other and offer them for sale;
\* the reply of every call is recorded in ret, for create_listing together
\* with the listing id it returns.  Up to MaxOffers listings are created.
OfferListing(c, t, k, pt, p) ==
  LET r == create_listing(tokens, listings, nextListingId, c, t, k, pt, p)
  IN  /\ Len(r.listings) <= MaxOffers
      /\ listings' = r.listings
      /\ nextListingId' = r.next
      /\ ret' = [op |-> "create_listing", res |-> r.res,
                 id |-> IF r.res = "ok" THEN nextListingId ELSE NoId]
      /\ UNCHANGED <<tokens, nextTokenId, buys, grants, others>>

NextListing ==
  \/ \E c \in Users : LedgerCreateToken(c, 2, 2, MaxAmount)
  \/ \E c \in Users, t \in TokenIds, to \in Users : LedgerTransfer(c, t, to, 1)
  \/ \E c \in Users, t \in TokenIds, k \in Amounts, pt \in PriceTokenIds, p \in Prices :
       OfferListing(c, t, k, pt, p)

SpecListing == Init /\ [][NextListing]_vars

\* ------------------------------------------------------ the buy specification
\* The marketplace with the reply of every buy call that fails its validation
\* recorded in ret ("pending" when the call passes it and suspends), for known
\* and unknown listing ids; the seller may cancel.
BuyCall(c, l, k) ==
  LET v == buyValidate(listings, l, k)
  IN  /\ BuyStart(c, l, k)
      /\ Reply("buy", IF v.res = "ok" THEN "pending" ELSE v.res)
      /\ UNCHANGED others

BuyListingIds == ListingIds \cup {MaxListings}

NextBuy ==
  \/ \E c \in Users : CancelCreateToken(c)
  \/ \E c \in Users : CancelApprove(c)
  \/ \E c \in Sellers, t \in ListedTokenIds, pt \in PriceTokenIds, p \in Prices :
       CallCreateListing(c, t, MaxAmount, pt, p) /\ UNCHANGED <<ret, others>>
  \/ \E c \in Sellers, l \in ListingIds : CancelListing(c, l)
  \/ \E c \in Buyers, l \in BuyListingIds, k \in 1 .. MaxAmount : BuyCall(c, l, k)
  \/ \E i \in Slots : ExecLegA(i) /\ UNCHANGED <<ret, others>>
  \/ \E i \in Slots : AfterLegA(i) /\ UNCHANGED <<ret, others>>
  \/ \E i \in Slots : ExecLegB(i) /\ UNCHANGED <<ret, others>>
  \/ \E i \in Slots : AfterLegB(i) /\ UNCHANGED <<ret, others>>
  \/ \E i \in Slots : ExecRefund(i) /\ UNCHANGED <<ret, others>>
  \/ \E i \in Slots : AfterRefund(i) /\ UNCHANGED <<ret, others>>

SpecBuy == Init /\ [][NextBuy]_vars

\* ---------------------------------------------------- the sales specification
\* The marketplace with the amount every listing was created with and the
\* amounts of the buy calls that returned ok recorded in sales.
SalesCreateListing(c, t, pt, p) ==
  LET r == create_listing(tokens, listings, nextListingId, c, t, MaxAmount, pt, p)
  IN  /\ CallCreateListing(c, t, MaxAmount, pt, p)
      /\ sales' = IF r.res = "ok"
                  THEN [sales EXCEPT ![nextListingId].listed = MaxAmount]
                  ELSE sales
      /\ UNCHANGED <<ret, userProfiles, adminPrincipals, now, cancelled>>

SalesAfterLegB(i) ==
  /\ AfterLegB(i)
  /\ sales' = IF buyReturn(buys[i]) = "ok"
              THEN [sales EXCEPT ![buys[i].listing.id].sold = @ + buys[i].amount_to_buy]
              ELSE sales
  /\ UNCHANGED <<ret, userProfiles, adminPrincipals, now, cancelled>>

NextSales ==
  \/ \E c \in Users : CancelCreateToken(c)
  \/ \E c \in Users : CancelApprove(c)
  \/ \E c \in Sellers, t \in ListedTokenIds, pt \in PriceTokenIds, p \in Prices :
       SalesCreateListing(c, t, pt, p)
  \/ \E c \in Buyers, l \in ListingIds, k \in 1 .. MaxAmount :
       BuyStart(c, l, k) /\ UNCHANGED <<ret, others>>
  \/ \E i \in Slots : ExecLegA(i) /\ UNCHANGED <<ret, others>>
  \/ \E i \in Slots : AfterLegA(i) /\ UNCHANGED <<ret, others>>
  \/ \E i \in Slots : ExecLegB(i) /\ UNCHANGED <<ret, others>>
  \/ \E i \in Slots : SalesAfterLegB(i)
  \/ \E i \in Slots : ExecRefund(i) /\ UNCHANGED <<ret, others>>
  \/ \E i \in Slots : AfterRefund(i) /\ UNCHANGED <<ret, others>>

SpecSales == Init /\ [][NextSales]_vars

\* ------------------------------------------------- the progress specification
\* The cancellation specification with the scheduling the platform gives a
\* suspended buy call: a self-call that was sent is executed, and the reply to
\* an awaited call is delivered.  Each step of a call in flight is weakly
\* fair.  For the two transferFrom legs the condition is written out, with
\* the step's only guard (the call's position) in place of ENABLED.
Quiet == UNCHANGED <<ret, others>>

SpecProgress ==
  /\ Init
  /\ [][NextCancel]_vars
  /\ \A i \in Slots :
       /\ []<>(buys[i].pc # "legA") \/ []<><<ExecLegA(i) /\ Quiet>>_vars
       /\ WF_vars(AfterLegA(i) /\ Quiet)
       /\ []<>(buys[i].pc # "legB") \/ []<><<ExecLegB(i) /\ Quiet>>_vars
       /\ WF_vars(AfterLegB(i) /\ Quiet)
       /\ WF_vars(ExecRefund(i) /\ Quiet)
       /\ WF_vars(AfterRefund(i) /\ Quiet)

\* ------------------------------------------------------------------ claims
AllAccounts == Accounts \cup {Anonymous}

SameBalances(tk1, tk2) ==
  \A t \in TokenIds, acc \in AllAccounts : balance_of(tk1, t, acc) = balance_of(tk2, t, acc)

\* The step is the one in which the suspended buy call i returns.
Returns(i) == InFlight(i) /\ buys'[i].pc = "idle"

\* C1: for every token, the balance entries add up to the token's total
\* supply, in every reachable state.
C1_SupplyConserved ==
  \A i \in 1 .. Len(tokens) : SumBalances(tokens[i].balances) = tokens[i].total_supply

\* C2: a buy call that returns an error, with no other call interleaved,
\* leaves the buyer's and the seller's balances of the price token and of the
\* listed token at their values before the call.
C2_BuyErrorRestoresBalances ==
  [][\A i \in Slots :
       (Returns(i) /\ buys[i].clean /\ buyReturn(buys[i]) \notin {"ok", "none"})
       => LET f == buys[i]
          IN  \A t \in {f.listing.price_tokenId, f.listing.tokenId},
                 acc \in {f.caller, f.listing.seller} :
                balance_of(tokens', t, acc) = balance_of(f.pre, t, acc)]_vars

\* C3: when Leg B failed and the refund failed too, buy returns an error other
\* than the ordinary token-transfer error.
C3_RefundFailureIsFatal ==
  \A i \in Slots :
    (buys[i].pc = "retR" /\ buys[i].leg # "ok")
    => buyReturn(buys[i]) # "TokenTransferFailed"

\* C4: once a listing's active flag is false, it is false in every later state.
C4_ActiveIsLatch ==
  [][\A l \in 1 .. Len(listings) : ~listings[l].active => ~listings'[l].active]_vars

\* C5: after approve(N) on a key, with no later approve on it, the amounts
\* the spender's successful transferFrom calls were granted, and the amounts
\* they took out of the owner's balance, add up to at most N, whatever buy
\* calls and ledger calls interleave; and no balance is below zero.
C5_SpenderWithinAllowance ==
  /\ \A key \in GrantKeys : /\ grants[key].spent <= grants[key].n
                            /\ grants[key].moved <= grants[key].n
  /\ \A i \in 1 .. Len(tokens) :
       \A j \in 1 .. Len(tokens[i].balances) : tokens[i].balances[j][2] >= 0

\* Two buy calls are suspended at once, the allowance of the buyer to the
\* engine is used up, and Leg A of one of them has just been refused although
\* the buyer's balance covers it.
C5_Witness ==
  \E i, j \in Slots :
    /\ i # j
    /\ InFlight(j)
    /\ buys[i].pc = "retA"
    /\ buys[i].leg = "InsufficientBalance"
    /\ LET key == <<buys[i].listing.price_tokenId, buys[i].caller, Engine>>
       IN  /\ grants[key].n > 0
           /\ grants[key].spent = grants[key].n
           /\ balance_of(tokens, key[1], key[2]) >= buys[i].total_price

\* C6: a buy of k units of a listing of n units at price p that returns ok,
\* with no other call interleaved, leaves the listing with n-k units, active
\* exactly when k < n, the buyer with k more of the listed token and k*p less
\* of the price token, and the seller with k less and k*p more.
C6_BuyOkSettles ==
  [][\A i \in Slots :
       (Returns(i) /\ buys[i].clean /\ buyReturn(buys[i]) = "ok")
       => LET f == buys[i]
              l == f.listing
              k == f.amount_to_buy
              cost == k * l.price_amount_per_token
          IN  /\ listings'[f.idx].amount = l.amount - k
              /\ listings'[f.idx].active = (k < l.amount)
              /\ balance_of(tokens', l.tokenId, f.caller)
                   = balance_of(f.pre, l.tokenId, f.caller) + k
              /\ balance_of(tokens', l.tokenId, l.seller)
                   = balance_of(f.pre, l.tokenId, l.seller) - k
              /\ balance_of(tokens', l.price_tokenId, f.caller)
                   = balance_of(f.pre, l.price_tokenId, f.caller) - cost
              /\ balance_of(tokens', l.price_tokenId, l.seller)
                   = balance_of(f.pre, l.price_tokenId, l.seller) + cost]_vars

\* The allowance the ledger holds for a key, where it holds an entry for it.
HasAllowance(key) ==
  /\ findTokenIndex(tokens, key[1]) # NoIdx
  /\ ApprovalHits(tokens[findTokenIndex(tokens, key[1])], key[1], key[2], key[3]) # {}

AllowanceOf(key) ==
  currentAllowance(tokens[findTokenIndex(tokens, key[1])], key[1], key[2], key[3])

\* C7: after approve(a, b, N), the successful transferFrom calls of spender b
\* from owner a leave the (a, b) allowance at exactly N minus the amounts they
\* were called with, and the allowance is never below zero.
C7_AllowanceReducedExactly ==
  \A key \in GrantKeys :
    HasAllowance(key) => /\ AllowanceOf(key) = grants[key].n - grants[key].spent
                         /\ AllowanceOf(key) >= 0

\* A transferFrom has just returned ok, and some spender has used a part of
\* an allowance and has a part of it left.
C7_Witness ==
  /\ ret = [op |-> "transferFrom", res |-> "ok"]
  /\ \E key \in GrantKeys : /\ HasAllowance(key)
                            /\ grants[key].spent > 0
                            /\ AllowanceOf(key) > 0

\* C8: a transferFrom that returns an error, by a spender or by the owner,
\* leaves every allowance and every balance of the ledger as it was.
C8_FailedTransferFromChangesNothing ==
  [][(ret'.op = "transferFrom" /\ ret'.res # "ok")
     => /\ \A i \in 1 .. Len(tokens) : tokens'[i].approvals = tokens[i].approvals
        /\ SameBalances(tokens, tokens')
        /\ tokens' = tokens]_vars

\* A transferFrom has just been refused while an owner with no balance has
\* granted a spender an allowance: the refusal for want of balance can occur.
C8_Witness ==
  /\ ret = [op |-> "transferFrom", res |-> "InsufficientBalance"]
  /\ \E key \in GrantKeys : /\ HasAllowance(key)
                            /\ AllowanceOf(key) > 0
                            /\ balance_of(tokens, key[1], key[2]) = 0

\* C9, as the claim states it: every transfer of more than the caller's
\* balance of the token returns InsufficientBalance and changes no balance.
C9_Original ==
  [][(ret'.op = "transfer")
     => \A c \in Users, t \in LedgerTokenIds, to \in Accounts, k \in Amounts :
          (k > balance_of(tokens, t, c) /\ LedgerTransfer(c, t, to, k))
          => /\ transfer(tokens, c, t, to, k).res = "InsufficientBalance"
             /\ SameBalances(tokens, tokens')]_vars

\* C9, amended: a transfer of more than the caller's balance, of a token that
\* exists and to an account other than the caller, returns InsufficientBalance;
\* and every transfer of more than the caller's balance changes no balance.
C9_InsufficientBalance ==
  [][(ret'.op = "transfer")
     => \A c \in Users, t \in LedgerTokenIds, to \in Accounts, k \in Amounts :
          (k > balance_of(tokens, t, c) /\ LedgerTransfer(c, t, to, k))
          => /\ (c # to /\ findTokenIndex(tokens, t) # NoIdx)
                  => transfer(tokens, c, t, to, k).res = "InsufficientBalance"
             /\ SameBalances(tokens, tokens')]_vars

\* A transfer has just been refused for want of balance.
C9_Witness ==
  /\ ret = [op |-> "transfer", res |-> "InsufficientBalance"]
  /\ tokens # << >>

\* C10: a transfer of at most the caller's balance, of a token that exists and
\* to an account other than the caller, returns ok, lowers the caller's
\* balance by the amount, raises the recipient's balance by the amount and
\* changes no other balance of any token.
C10_TransferMovesExactly ==
  [][(ret'.op = "transfer")
     => \A c \in Users, t \in LedgerTokenIds, to \in Accounts, k \in Amounts :
          (/\ c # to
           /\ findTokenIndex(tokens, t) # NoIdx
           /\ k <= balance_of(tokens, t, c)
           /\ LedgerTransfer(c, t, to, k))
          => /\ transfer(tokens, c, t, to, k).res = "ok"
             /\ balance_of(tokens', t, c) = balance_of(tokens, t, c) - k
             /\ balance_of(tokens', t, to) = balance_of(tokens, t, to) + k
             /\ \A t2 \in TokenIds, acc \in AllAccounts :
                  (t2 # t \/ acc \notin {c, to})
                  => balance_of(tokens', t2, acc) = balance_of(tokens, t2, acc)]_vars

\* A transfer of a positive amount has just returned ok: an account other
\* than the minting account holds tokens.
C10_Witness ==
  /\ ret = [op |-> "transfer", res |-> "ok"]
  /\ \E i \in 1 .. Len(tokens) :
       \E j \in 1 .. Len(tokens[i].balances) :
         /\ tokens[i].balances[j][1] # tokens[i].minting_account
         /\ tokens[i].balances[j][2] > 0

\* C11: a transfer whose recipient is the caller returns SelfTransfer, and an
\* approve whose spender is the caller returns SelfApproval, whatever the
\* token, the balances and the allowances are; neither changes the ledger.
C11_SelfCallsRejected ==
  [][/\ (ret'.op = "transfer")
          => \A c \in Users, t \in LedgerTokenIds, k \in Amounts :
               LedgerTransfer(c, t, c, k)
               => (ret'.res = "SelfTransfer" /\ tokens' = tokens)
     /\ (ret'.op = "approve")
          => \A c \in Users, t \in LedgerTokenIds, k \in Amounts :
               LedgerApprove(c, t, c, k)
               => (ret'.res = "SelfApproval" /\ tokens' = tokens)]_vars

\* A transfer to the caller itself has just been refused in a ledger that
\* holds a token with a positive allowance on it.
C11_Witness ==
  /\ ret = [op |-> "transfer", res |-> "SelfTransfer"]
  /\ \E key \in GrantKeys : HasAllowance(key) /\ AllowanceOf(key) > 0

\* The approval entries of every token of `tk` have distinct (token, owner,
\* spender) keys.
OneEntryPerKey(tk) ==
  \A i \in 1 .. Len(tk) :
    \A j1, j2 \in 1 .. Len(tk[i].approvals) :
      (j1 # j2) => ~IsApproval(tk[i].approvals[j1], tk[i].approvals[j2].tokenId,
                               tk[i].approvals[j2].owner, tk[i].approvals[j2].spender)

\* C12: an approve that returns ok leaves the allowance of (token, caller,
\* spender) at exactly the value it was called with, whatever the allowance
\* was before, and no token ever holds two approval entries for one key.
C12_ApproveReplaces ==
  [][/\ OneEntryPerKey(tokens')
     /\ (ret' = [op |-> "approve", res |-> "ok"])
          => \A c \in KeyOwners, t \in LedgerTokenIds, sp \in Accounts, k \in Amounts :
               KeysApprove(c, t, sp, k)
               => /\ HasAllowance(<<t, c, sp>>)'
                  /\ AllowanceOf(<<t, c, sp>>)' = k]_vars

\* An approve has just returned ok on a token that holds entries for two
\* keys, one of them with its allowance at the largest amount and nothing
\* spent of it.
C12_Witness ==
  /\ ret = [op |-> "approve", res |-> "ok"]
  /\ \E i \in 1 .. Len(tokens) : Len(tokens[i].approvals) = 2
  /\ \E key \in GrantKeys : /\ HasAllowance(key)
                            /\ AllowanceOf(key) = MaxAmount
                            /\ grants[key].spent = 0

\* C13: in every state, for every token that exists, every recipient and
\* every amount, transferFrom called by the owner returns what transfer called
\* by the owner returns, the same reply and the same ledger.
C13_OwnerTransferFromIsTransfer ==
  \A o \in Users, t \in LedgerTokenIds, rc \in Accounts, k \in Amounts :
    (findTokenIndex(tokens, t) # NoIdx)
    => transferFrom(tokens, o, t, o, rc, k) = transfer(tokens, o, t, rc, k)

\* The error of the first check that fails, in the order: caller not
\* anonymous, create permission, name length, symbol length, supply.
FirstFailure(c, n, y, s) ==
  IF c = Anonymous THEN "AnonymousNotAllowed"
  ELSE IF ~hasCreatePermission(c) THEN "InsufficientPermissions"
  ELSE IF n \notin 2 .. 50 THEN "InvalidName"
  ELSE IF y \notin 2 .. 10 THEN "InvalidSymbol"
  ELSE IF ~(s > 0) THEN "InvalidSupply"
  ELSE "ok"

\* C14: create_token returns the error of the first failing check in the
\* order anonymous caller, permission, name length, symbol length, supply,
\* and ok when no check fails.
C14_CreateTokenCheckOrder ==
  [][(ret'.op = "create_token")
     => \A c \in UserCreators, n \in UserNameSizes, y \in UserSymbolSizes, s \in Supplies :
          (ret'.caller = c /\ ret'.res = createTokenCheck(c, n, y, s))
          => ret'.res = FirstFailure(c, n, y, s)]_vars

\* create_token has just refused the anonymous caller, after running
\* updateUserActivity for it.
C14_Witness ==
  /\ ret = [op |-> "create_token", res |-> "AnonymousNotAllowed", caller |-> Anonymous]
  /\ HasProfile(userProfiles, Anonymous)

\* C15: a create_token or transfer call that returns an error leaves the
\* tokens, the listings, the id counters and the user profiles as they were.
C15_ErrorsChangeNothing ==
  [][(ret'.op \in {"create_token", "transfer"} /\ ret'.res # "ok")
     => UNCHANGED <<tokens, listings, nextTokenId, nextListingId, userProfiles>>]_vars

\* C16: the counter equals the number of tokens stored and the k-th token
\* stored has id k-1; a create_token that returns an error leaves the counter
\* and the tokens as they were; one that returns ok returns the number of
\* tokens stored before it, stores one token with that id and advances the
\* counter by one.
C16_TokenIdCounter ==
  [][/\ nextTokenId' = Len(tokens')
     /\ \A i \in 1 .. Len(tokens') : tokens'[i].id = i - 1
     /\ (ret'.op = "create_token" /\ ret'.res # "ok")
          => (nextTokenId' = nextTokenId /\ tokens' = tokens)
     /\ (ret'.op = "create_token" /\ ret'.res = "ok")
          => /\ nextTokenId' = nextTokenId + 1
             /\ Len(tokens') = Len(tokens) + 1
             /\ \A c \in UserCreators, n \in UserNameSizes, y \in UserSymbolSizes,
                   s \in Supplies :
                  (ret'.caller = c /\ createTokenCheck(c, n, y, s) = "ok")
                  => /\ PulseMarket_create_token(tokens, nextTokenId, userProfiles,
                                                 adminPrincipals, c, n, y, s, now).id
                          = Len(tokens)
                     /\ tokens'[Len(tokens')].id = Len(tokens)]_vars

\* create_token has just returned an error after two tokens were created.
C16_Witness ==
  /\ ret.op = "create_token"
  /\ ret.res \notin {"ok", "none"}
  /\ Len(tokens) = 2
  /\ nextTokenId = 2

\* C17: a call by the anonymous principal is rejected as such and changes
\* neither the tokens, nor the counter, nor any user profile.
C17_AnonymousRejectedFirst ==
  [][(ret'.caller = Anonymous)
     => /\ ret'.res = "AnonymousNotAllowed"
        /\ UNCHANGED <<tokens, nextTokenId, userProfiles>>]_vars

\* The role a principal resolves to: the role of its profile, and without a
\* profile Admin for the listed admin principals and User for everyone else.
resolvedRole(p) ==
  IF HasProfile(userProfiles, p) THEN userProfiles[p].role
  ELSE IF p \in adminPrincipals THEN "Admin" ELSE "User"

\* C18: set_user_role by a caller whose resolved role is not Admin returns
\* false and changes no profile; by an Admin it returns true, gives the target
\* the role, creates the target's profile if it had none, and changes nothing
\* else.
C18_SetRoleAdminOnly ==
  [][(ret'.op = "set_user_role")
     => \A c \in RoleSetters, u \in RoleTargets, role \in Roles :
          (ret'.caller = c /\ UserSetRole(c, u, role))
          => IF resolvedRole(c) # "Admin"
             THEN ret'.res = FALSE /\ userProfiles' = userProfiles
             ELSE /\ ret'.res = TRUE
                  /\ DOMAIN userProfiles' = DOMAIN userProfiles \cup {u}
                  /\ userProfiles'[u].role = role
                  /\ \A q \in DOMAIN userProfiles \ {u} : userProfiles'[q] = userProfiles[q]
                  /\ HasProfile(userProfiles, u)
                       => userProfiles'[u] = [userProfiles[u] EXCEPT !.role = role]
                  /\ ~HasProfile(userProfiles, u)
                       => userProfiles'[u].tokensCreated = 0]_vars

\* set_user_role called by the listed admin principal has just returned
\* true, and user "a" is a Creator.
C18_Witness ==
  /\ ret.op = "set_user_role"
  /\ ret.res = TRUE
  /\ ret.caller = AdminPrincipal
  /\ HasProfile(userProfiles, "a")
  /\ userProfiles["a"].role = "Creator"

\* C19: cancel_listing called on an existing listing by anyone but its seller
\* returns NotSeller and leaves the listings as they were.
C19_NonSellerCannotCancel ==
  [][\A c \in Users, l \in ListingIds :
       LET idx == findListingIndex(listings, l)
       IN  (idx # NoIdx /\ listings[idx].seller # c /\ CancelListing(c, l))
           => (ret'.res = "NotSeller" /\ listings' = listings)]_vars

\* cancel_listing has just returned NotSeller while listing 0 is active.
C19_Witness ==
  /\ ret = [op |-> "cancel_listing", res |-> "NotSeller"]
  /\ findListingIndex(listings, 0) # NoIdx
  /\ listings[findListingIndex(listings, 0)].active

\* C20: cancel_listing called by the seller on an active listing returns ok
\* and makes the listing inactive with its amount unchanged; every buy
\* started on a listing that was cancelled fails with ListingInactive and
\* starts no transfer.
C20_CancelledStaysClosed ==
  [][/\ \A c \in Users, l \in ListingIds :
          LET idx == findListingIndex(listings, l)
          IN  (idx # NoIdx /\ listings[idx].seller = c /\ listings[idx].active
               /\ CancelListing(c, l))
              => /\ ret'.res = "ok"
                 /\ ~listings'[idx].active
                 /\ listings'[idx].amount = listings[idx].amount
     /\ \A c \in Buyers, l \in ListingIds, k \in 1 .. MaxAmount :
          (l \in cancelled /\ BuyStart(c, l, k) /\ UNCHANGED <<ret, others>>)
          => (buyValidate(listings, l, k).res = "ListingInactive" /\ buys' = buys)]_vars

\* C21: cancel_listing called on a listing that is no longer active does not
\* return ok, whoever calls it.
C21_SecondCancelFails ==
  [][\A c \in Users, l \in ListingIds :
       LET idx == findListingIndex(listings, l)
       IN  (idx # NoIdx /\ ~listings[idx].active /\ CancelListing(c, l))
           => ret'.res # "ok"]_vars

\* C22: a step that changes a balance leaves every listing as it was; the
\* transfer of the listed token of a buy (Leg B) that runs while the seller
\* holds less than the amount bought does not return ok; and a buy whose
\* Leg B did not return ok goes on to the refund and is not reported as ok.
C22_ShortSellerBuyFails ==
  [][/\ (tokens' # tokens) => listings' = listings
     /\ \A i \in Slots :
          LET f == buys[i]
          IN  /\ (/\ f.pc = "legB"
                  /\ buys'[i].pc = "retB"
                  /\ balance_of(tokens, f.listing.tokenId, f.listing.seller)
                       < f.amount_to_buy)
                 => (buys'[i].leg # "ok" /\ tokens' = tokens)
              /\ (f.pc = "retB" /\ f.leg # "ok" /\ buys'[i].pc # "retB")
                 => (buys'[i].pc = "refund" /\ buyReturn(f) # "ok")
              /\ (f.pc = "retR" /\ buys'[i].pc # "retR")
                 => buyReturn(f) = "TokenTransferFailed"]_vars

\* Leg B of a buy has just failed because the seller, whose listing is still
\* active with the full amount, holds less of the listed token than the buyer
\* asked for.
C22_Witness ==
  \E i \in Slots :
    /\ buys[i].pc = "retB"
    /\ buys[i].leg # "ok"
    /\ listings[buys[i].idx].active
    /\ listings[buys[i].idx].amount = MaxAmount
    /\ balance_of(tokens, buys[i].listing.tokenId, buys[i].listing.seller)
         < buys[i].amount_to_buy
    /\ AllowanceOf(<<buys[i].listing.tokenId, buys[i].listing.seller, Engine>>)
         >= buys[i].amount_to_buy

\* C23: create_listing returns ok exactly when the token exists and the
\* caller holds at least the amount; otherwise it returns TokenNotFound (no
\* such token) or InsufficientBalance, and the listings and the listing-id
\* counter stay as they were.  On ok one listing is appended: it is active,
\* has the given token, seller and amount, its id is the previous counter
\* value, which is also the value returned, and the counter advances by one.
C23_CreateListingChecks ==
  [][(ret'.op = "create_listing")
     => \A c \in Users, t \in TokenIds, k \in Amounts, pt \in PriceTokenIds, p \in Prices :
          OfferListing(c, t, k, pt, p)
          => IF (\E i \in 1 .. Len(tokens) : tokens[i].id = t) /\ balance_of(tokens, t, c) >= k
             THEN /\ ret'.res = "ok"
                  /\ ret'.id = nextListingId
                  /\ nextListingId' = nextListingId + 1
                  /\ Len(listings') = Len(listings) + 1
                  /\ SubSeq(listings', 1, Len(listings)) = listings
                  /\ LET new == listings'[Len(listings')]
                     IN  /\ new.active
                         /\ new.amount = k
                         /\ new.tokenId = t
                         /\ new.seller = c
                         /\ new.id = nextListingId
             ELSE /\ ret'.res = IF \E i \in 1 .. Len(tokens) : tokens[i].id = t
                                THEN "InsufficientBalance" ELSE "TokenNotFound"
                  /\ listings' = listings
                  /\ nextListingId' = nextListingId]_vars

\* create_listing has just returned InsufficientBalance after a listing was
\* created, and the counter still equals the number of listings.
C23_Witness ==
  /\ ret.op = "create_listing"
  /\ ret.res = "InsufficientBalance"
  /\ Len(listings) = 1
  /\ nextListingId = 1

\* C24: a buy call returns ListingNotFound when no listing has the id,
\* ListingInactive when the listing is not active, InsufficientListedAmount
\* when the amount exceeds the listing's amount, each before any leg is sent
\* and with the tokens (balances and allowances), the listings and the
\* suspended calls unchanged; otherwise it suspends on its first leg, still
\* with tokens and listings unchanged.
C24_BuyValidatesFirst ==
  [][(ret'.op = "buy")
     => \A c \in Buyers, l \in BuyListingIds, k \in 1 .. MaxAmount :
          BuyCall(c, l, k)
          => LET hit == {i \in 1 .. Len(listings) : listings[i].id = l}
             IN  /\ tokens' = tokens
                 /\ listings' = listings
                 /\ IF hit = {} THEN ret'.res = "ListingNotFound" /\ buys' = buys
                    ELSE LET listing == listings[CHOOSE i \in hit : TRUE]
                         IN  IF ~listing.active
                             THEN ret'.res = "ListingInactive" /\ buys' = buys
                             ELSE IF k > listing.amount
                             THEN ret'.res = "InsufficientListedAmount" /\ buys' = buys
                             ELSE ret'.res = "pending"]_vars

\* A buy of more than the one unit left on an active listing has just been
\* rejected.
C24_Witness ==
  /\ ret = [op |-> "buy", res |-> "InsufficientListedAmount"]
  /\ Len(listings) = 1
  /\ listings[1].active
  /\ listings[1].amount = 1

\* C25: an upgrade (preupgrade followed by postupgrade) leaves the tokens
\* with their balances and the token-id counter as they were, and the user
\* profiles after it are those before it: the same accounts, each with the
\* same role, createdAt, lastActive, tokensCreated and isVerified.
C25_UpgradeKeepsState ==
  [][(ret'.op = "upgrade")
     => /\ tokens' = tokens
        /\ nextTokenId' = nextTokenId
        /\ DOMAIN userProfiles' = DOMAIN userProfiles
        /\ \A p \in DOMAIN userProfiles : userProfiles'[p] = userProfiles[p]]_vars

\* An upgrade has just run on a state with a token and two profiles, one of
\* them a Creator that has created a token.
C25_Witness ==
  /\ ret.op = "upgrade"
  /\ Len(tokens) >= 1
  /\ HasProfile(userProfiles, "a")
  /\ HasProfile(userProfiles, AdminPrincipal)
  /\ userProfiles["a"].role = "Creator"
  /\ userProfiles["a"].tokensCreated >= 1

C27_SpenderTransferMoves ==
  [][(ret'.op = "transferFrom" /\ ret'.res = "ok")
     => \A c \in Users, t \in LedgerTokenIds, o \in Users, r \in Accounts, k \in Amounts :
          (c # o /\ r # o /\ LedgerTransferFrom(c, t, o, r, k))
          => /\ balance_of(tokens', t, o) = balance_of(tokens, t, o) - k
             /\ balance_of(tokens', t, r) = balance_of(tokens, t, r) + k]_vars

\* C28: the amount of a listing that is active before and after a step does
\* not increase in that step; and a buy that returns ok leaves the listing's
\* amount at the amount stored when it returns less the amount bought.
C28_AmountFromCurrentState ==
  [][/\ \A j \in 1 .. Len(listings) :
          (listings[j].active /\ listings'[j].active)
          => listings'[j].amount <= listings[j].amount
     /\ \A i \in Slots :
          (Returns(i) /\ buyReturn(buys[i]) = "ok")
          => listings'[buys[i].idx].amount
               = listings[buys[i].idx].amount - buys[i].amount_to_buy]_vars

\* C29: transferFrom called with the owner as recipient and a positive amount
\* does not return ok and leaves the tokens as they were, whether the caller
\* is the owner or another account.
C29_TransferFromToOwnerRejected ==
  [][(ret'.op = "transferFrom")
     => \A c \in Users, t \in LedgerTokenIds, o \in Users, k \in Amounts \ {0} :
          LedgerTransferFrom(c, t, o, o, k)
          => (ret'.res # "ok" /\ tokens' = tokens)]_vars

\* C30: a buy call that returns an error, with no other call interleaved,
\* leaves the approvals of every token as they were when the call started.
C30_BuyErrorRestoresAllowances ==
  [][\A i \in Slots :
       (Returns(i) /\ buys[i].clean /\ buyReturn(buys[i]) \notin {"ok", "none"})
       => \A j \in 1 .. Len(tokens') : tokens'[j].approvals = buys[i].pre[j].approvals]_vars

\* C31: a step in which a transfer sent by a buy call runs (Leg A, Leg B or
\* the refund) changes no balance of an account other than the buyer and the
\* listing's seller.
C31_BuyTouchesOnlyParties ==
  [][\A i \in Slots :
       (buys[i].pc \in {"legA", "legB", "refund"} /\ buys'[i].pc # buys[i].pc)
       => \A t \in TokenIds, acc \in AllAccounts \ {buys[i].caller, buys[i].listing.seller} :
            balance_of(tokens', t, acc) = balance_of(tokens, t, acc)]_vars

\* C32: a step of a buy call changes the listings only when it is the step
\* that resumes the call after Leg B returned ok; the step that starts the
\* call, the steps in which its legs and its refund run, and the steps that
\* resume it after a failed leg or after the refund leave the listings as they
\* were.
C32_ListingWrittenAfterBothLegs ==
  [][\A i \in Slots :
       (buys'[i].pc # buys[i].pc /\ ~(buys[i].pc = "retB" /\ buys[i].leg = "ok"))
       => listings' = listings]_vars

\* A buy call whose Leg B failed is about to be refunded while no other call
\* has run since it started, and its listing is as the call read it.
C32_Witness ==
  \E i \in Slots :
    /\ buys[i].pc = "refund"
    /\ buys[i].clean
    /\ listings[buys[i].idx] = buys[i].listing
    /\ listings[buys[i].idx].active

\* C33: every profile stays, and the role of a profile changes only in a
\* step in which set_user_role returns true to a caller whose resolved role
\* is Admin.
C33_RoleChangesOnlyByAdmin ==
  [][\A p \in DOMAIN userProfiles :
       /\ p \in DOMAIN userProfiles'
       /\ (userProfiles'[p].role # userProfiles[p].role)
          => /\ ret'.op = "set_user_role"
             /\ ret'.res = TRUE
             /\ resolvedRole(ret'.caller) = "Admin"]_vars

\* create_token has just returned ok to a Creator, whose profile was
\* rewritten by the call and still has the role Creator.
C33_Witness ==
  /\ ret.op = "create_token"
  /\ ret.res = "ok"
  /\ ret.caller = "a"
  /\ userProfiles["a"].role = "Creator"
  /\ userProfiles["a"].tokensCreated = 1
  /\ userProfiles["a"].lastActive > userProfiles["a"].createdAt

\* The number of stored tokens whose minting account is p.
MintedBy(tk, p) == Cardinality({i \in 1 .. Len(tk) : tk[i].minting_account = p})

\* C38: after every step, the tokensCreated of every profile equals the
\* number of stored tokens minted by its account; tokensCreated of a profile
\* changes only in a step in which create_token returns ok to that account,
\* and then by one; and a create_token that returns ok leaves the caller with
\* a profile.
C38_TokensCreatedCounts ==
  [][/\ \A p \in DOMAIN userProfiles' :
          userProfiles'[p].tokensCreated = MintedBy(tokens', p)
     /\ \A p \in DOMAIN userProfiles :
          (userProfiles'[p].tokensCreated # userProfiles[p].tokensCreated)
          => /\ ret'.op = "create_token"
             /\ ret'.res = "ok"
             /\ ret'.caller = p
             /\ userProfiles'[p].tokensCreated = userProfiles[p].tokensCreated + 1
     /\ (ret'.op = "create_token" /\ ret'.res = "ok")
          => /\ HasProfile(userProfiles', ret'.caller)
             /\ MintedBy(tokens', ret'.caller) = MintedBy(tokens, ret'.caller) + 1]_vars

\* An Admin has just given a role to user "a", who has created two tokens and
\* whose profile still counts two.
C38_Witness ==
  /\ ret.op = "set_user_role"
  /\ ret.res = TRUE
  /\ HasProfile(userProfiles, "a")
  /\ userProfiles["a"].tokensCreated = 2
  /\ MintedBy(tokens, "a") = 2

\* C37: in every reachable state every active listing has an amount greater
\* than zero.
C37_ActiveListingHasAmount ==
  \A j \in 1 .. Len(listings) : listings[j].active => listings[j].amount > 0

\* C35: in every reachable state, the amounts of the buy calls on a listing
\* that returned ok add up to at most the amount the listing was created
\* with.
C35_NeverOversold ==
  \A l \in ListingIds : sales[l].sold <= sales[l].listed

\* C36: in every reachable state with no buy call in flight, the amount of
\* every listing equals the amount it was created with less the amounts of
\* the buy calls on it that returned ok.
C36_ListingAccountingExact ==
  (\A i \in Slots : ~InFlight(i))
  => \A j \in 1 .. Len(listings) :
       listings[j].amount = sales[listings[j].id].listed - sales[listings[j].id].sold

\* C34: every buy call in flight eventually returns, whatever other calls
\* (buy, approve, cancel_listing) run meanwhile.
C34_BuyReturns ==
  \A i \in Slots : InFlight(i) ~> ~InFlight(i)

\* Two buy calls are in flight on a listing that was cancelled after they
\* started.
C34_Witness ==
  /\ \A i \in Slots : InFlight(i)
  /\ 0 \in cancelled
  /\ ~listings[1].active

====
